---- MODULE Spec2Model ----
(***************************************************************************)
(* hashi-solver-ui, src/opencv/TestPage.jsx: TestPage.processImage.        *)
(*                                                                         *)
(* The component holds state.text and a scratch canvas (tmpImgRef).  Each  *)
(* load event of the hidden <img> calls the async function processImage,   *)
(* which is modelled as one process per call; a process takes one atomic   *)
(* step per stretch of code between two awaits.  The rectangles found by   *)
(* OpenCV and the texts returned by Tesseract are inputs.                  *)
(*                                                                         *)
(* A JavaScript string is modelled as a sequence of one-character strings, *)
(* a JavaScript array as a sequence (index k of the array is element k+1). *)
(***************************************************************************)
EXTENDS Integers, Sequences, FiniteSets, TLC

VARIABLES
  pending,   \* the images the user is still going to select, in order
  runs,      \* one record per processImage call, in the order of the calls
  text,      \* this.state.text
  tmpImg     \* what the scratch canvas this.tmpImgRef shows: <<>> or <<rect>>

vars == <<pending, runs, text, tmpImg>>

-----------------------------------------------------------------------------
(* Bounds of the model.                                                    *)

\* the longest rectangle list of an image processed alone
MaxRects == 3
\* the largest number of images selected in one session of overlapping runs
MaxLoads == 2

-----------------------------------------------------------------------------
(* Inputs.                                                                 *)

Rect(x, y, w, h) == [x |-> x, y |-> y, width |-> w, height |-> h]

\* Bounding rectangles the second findContours pass can yield.  They include
\* nested, edge-touching and disjoint pairs, two rectangles with the same
\* corner, and columns at x = 0, 20, 45, 60 (gaps that are and are not whole
\* multiples of the smallest one).
Rects ==
  { Rect(0, 0, 20, 20), Rect(5, 5, 20, 20), Rect(25, 5, 15, 15),
    Rect(0, 0, 15, 15), Rect(20, 0, 15, 15), Rect(45, 0, 12, 12),
    Rect(60, 0, 15, 15), Rect(0, 20, 15, 15) }

\* Texts worker.recognize can return in text.data.text.
OcrTexts ==
  { <<"3">>, <<"1">>, <<"2">>, <<"4">>, <<>>, <<"a", "1", "2">> }

SeqsUpTo(S, n) == UNION { [1..k -> S] : k \in 0..n }

\* the image of the end-to-end example: islands at x = 0, 20, 60 and y = 0, 20
EndToEndExample ==
  << Rect(0, 0, 15, 15), Rect(20, 0, 15, 15), Rect(60, 0, 15, 15),
     Rect(0, 20, 15, 15) >>

\* an image is given by the rectangle list the detection yields for it
Images == SeqsUpTo(Rects, MaxRects) \cup {EndToEndExample}

\* the images of the sessions in which several runs overlap
SmallImages == { <<>>, <<Rect(0, 0, 20, 20)>> }

\* a session: the images the user selects, one after the other
Sessions ==
  { <<im>> : im \in Images }
    \cup UNION { [1..k -> SmallImages] : k \in 2..MaxLoads }

-----------------------------------------------------------------------------
(* JavaScript values and library functions.                                *)

\* uniq_x[0] of an empty array
Undefined == -2
\* the marker of an inferred empty column or row
Gap == -1
\* Number.MAX_VALUE: larger than every difference of two pixel positions
MAX_VALUE == 1000000

Digits == {"0", "1", "2", "3", "4", "5", "6", "7", "8", "9"}

\* Array.prototype.indexOf: the first index (from 0) holding v, or -1
IndexOf(arr, v) ==
  IF \E k \in 1..Len(arr) : arr[k] = v
  THEN (CHOOSE k \in 1..Len(arr) :
          arr[k] = v /\ \A m \in 1..(k - 1) : arr[m] # v) - 1
  ELSE -1

\* Math.max where Math.min is meant
Max(a, b) == IF a > b THEN a ELSE b

\* Math.min
Min(a, b) == IF a < b THEN a ELSE b

\* Math.round(delta / unit) for delta >= 0, unit > 0: floor(delta/unit + 1/2)
Round(delta, unit) == (2 * delta + unit) \div (2 * unit)

\* String.prototype.match(/\d+/): the first maximal run of digits as a
\* one-element array, <<>> for null
RECURSIVE DigitRun(_, _)
DigitRun(s, k) ==
  IF k > Len(s) \/ s[k] \notin Digits THEN <<>>
  ELSE <<s[k]>> \o DigitRun(s, k + 1)

Match(s) ==
  IF \E k \in 1..Len(s) : s[k] \in Digits
  THEN <<DigitRun(s, CHOOSE k \in 1..Len(s) :
                       s[k] \in Digits /\ \A m \in 1..(k - 1) : s[m] \notin Digits)>>
  ELSE <<>>

\* Array.prototype.sort((a, b) => a - b)
RECURSIVE Insert(_, _)
Insert(sorted, v) ==
  IF sorted = <<>> THEN <<v>>
  ELSE IF v < Head(sorted) THEN <<v>> \o sorted
  ELSE <<Head(sorted)>> \o Insert(Tail(sorted), v)

RECURSIVE Sort(_)
Sort(arr) ==
  IF arr = <<>> THEN <<>>
  ELSE Insert(Sort(SubSeq(arr, 1, Len(arr) - 1)), arr[Len(arr)])

\* Array.prototype.join("") of an array of strings
RECURSIVE Join(_)
Join(cells) ==
  IF cells = <<>> THEN <<>> ELSE Head(cells) \o Join(Tail(cells))

\* Array.prototype.join("\n") of an array of strings
RECURSIVE JoinLines(_)
JoinLines(rows) ==
  IF rows = <<>> THEN <<>>
  ELSE IF Len(rows) = 1 THEN rows[1]
  ELSE rows[1] \o <<"\n">> \o JoinLines(Tail(rows))

-----------------------------------------------------------------------------
(* processImage: overlap resolution.                                       *)

\* overlap with <= for <: rectangles that only touch do not overlap
overlapOpen(r1, r2) ==
  ~ ( \/ r1.x + r1.width <= r2.x
      \/ r2.x + r2.width <= r1.x
      \/ r1.y + r1.height <= r2.y
      \/ r2.y + r2.height <= r1.y )

overlap(r1, r2) ==
  ~ ( \/ r1.x + r1.width < r2.x
      \/ r2.x + r2.width < r1.x
      \/ r1.y + r1.height < r2.y
      \/ r2.y + r2.height < r1.y )

\* skip with the inner loop comparing against the kept rectangles only
RECURSIVE SkipAgainstKept(_, _)
SkipAgainstKept(rectangles, i) ==
  \E j \in 1..(i - 1) :
    /\ ~SkipAgainstKept(rectangles, j)
    /\ overlap(rectangles[i], rectangles[j])

\* skip with the inner loop comparing against the previous rectangle only
SkipPrevious(rectangles, i) ==
  i > 1 /\ overlap(rectangles[i], rectangles[i - 1])

\* the flag skip of rectangle i (from 1) after the inner loop over j < i
Skip(rectangles, i) ==
  \E j \in 1..(i - 1) : overlap(rectangles[i], rectangles[j])

\* the next index >= from at which the outer loop reaches the branch !skip;
\* 0 when the loop ends first
NextKept(rectangles, from) ==
  IF \E i \in from..Len(rectangles) : ~Skip(rectangles, i)
  THEN CHOOSE i \in from..Len(rectangles) :
         ~Skip(rectangles, i) /\ \A m \in from..(i - 1) : Skip(rectangles, m)
  ELSE 0

\* the value v taken from a recognized text
Value(t) == IF Match(t) = <<>> THEN <<"?">> ELSE Match(t)[1]

-----------------------------------------------------------------------------
(* processImage: grid reconstruction.                                      *)

\* uniq_x / uniq_y before the sort: the positions in order of first occurrence
RECURSIVE Uniq(_)
Uniq(ps) ==
  IF ps = <<>> THEN <<>>
  ELSE LET u == Uniq(SubSeq(ps, 1, Len(ps) - 1))
           p == ps[Len(ps)]
       IN IF IndexOf(u, p) = -1 THEN Append(u, p) ELSE u

\* min_delta taken from the first two positions only
MinDeltaFirst(uniq, n) ==
  IF n < 2 THEN MAX_VALUE ELSE uniq[2] - uniq[1]

\* min_delta_x / min_delta_y after the loop over i in 1 .. uniq.length - 1
RECURSIVE MinDelta(_, _)
MinDelta(uniq, n) ==
  IF n < 2 THEN MAX_VALUE
  ELSE Min(uniq[n] - uniq[n - 1], MinDelta(uniq, n - 1))

\* the -1 entries pushed by a loop while (num_steps > 0)
RECURSIVE GapsFromZero(_)
GapsFromZero(num_steps) ==
  IF num_steps > 0 THEN <<Gap>> \o GapsFromZero(num_steps - 1) ELSE <<>>

\* the -1 entries pushed by the loop while (num_steps > 1)
RECURSIVE Gaps(_)
Gaps(num_steps) ==
  IF num_steps > 1 THEN <<Gap>> \o Gaps(num_steps - 1) ELSE <<>>

\* xs / ys after the loop over i in 1 .. uniq.length - 1
RECURSIVE Axis(_, _, _)
Axis(uniq, min_delta, n) ==
  IF n < 2 THEN <<IF uniq = <<>> THEN Undefined ELSE uniq[1]>>
  ELSE Axis(uniq, min_delta, n - 1)
         \o Gaps(Round(uniq[n] - uniq[n - 1], min_delta))
         \o <<uniq[n]>>

\* arr after the two loops that fill it with " "
Blank(ys, xs) == [i \in 1..Len(ys) |-> [j \in 1..Len(xs) |-> <<" ">>]]

\* arr after the first n values have been written into it
RECURSIVE Place(_, _, _, _, _)
Place(arr, values, xs, ys, n) ==
  IF n = 0 THEN arr
  ELSE LET a == Place(arr, values, xs, ys, n - 1)
           v == values[n]
           x == IndexOf(xs, v.x)
           y == IndexOf(ys, v.y)
       IN [a EXCEPT ![y + 1][x + 1] = v.v]

\* str
Serialize(arr) == JoinLines([i \in 1..Len(arr) |-> Join(arr[i])])

\* lines 161-237: the locals of the run once the loop over the rectangles
\* has ended
Reconstruct(run) ==
  LET uniq_x == Sort(Uniq([k \in 1..Len(run.values) |-> run.values[k].x]))
      uniq_y == Sort(Uniq([k \in 1..Len(run.values) |-> run.values[k].y]))
      mdx == MinDelta(uniq_x, Len(uniq_x))
      mdy == MinDelta(uniq_y, Len(uniq_y))
      xs == Axis(uniq_x, mdx, Len(uniq_x))
      ys == Axis(uniq_y, mdy, Len(uniq_y))
      arr == Place(Blank(ys, xs), run.values, xs, ys, Len(run.values))
  IN [run EXCEPT !.pc = "done", !.i = Len(run.rectangles) + 1,
                 !.min_delta_x = mdx, !.min_delta_y = mdy,
                 !.xs = xs, !.ys = ys, !.arr = arr, !.str = Serialize(arr)]

-----------------------------------------------------------------------------
(* The processes.                                                          *)

\* the locals of a call of processImage that has just been made
NewRun(im) ==
  [pc |-> "load", rectangles |-> im, i |-> 0, dst2 |-> <<>>,
   values |-> <<>>, min_delta_x |-> 0, min_delta_y |-> 0,
   xs |-> <<>>, ys |-> <<>>, arr |-> <<>>, str |-> <<>>]

\* The loop over the rectangles, entered or resumed at index from: it runs
\* to the next await of worker.recognize, or to the end of processImage.
Loop(r, run, from) ==
  LET j == NextKept(run.rectangles, from)
  IN IF j # 0
     THEN /\ runs' = [runs EXCEPT ![r] =
                        [run EXCEPT !.pc = "recognize", !.i = j,
                                    !.dst2 = Append(@, run.rectangles[j])]]
          /\ tmpImg' = <<run.rectangles[j]>>
          /\ text' = text
     ELSE LET fin == Reconstruct(run)
          IN /\ runs' = [runs EXCEPT ![r] = fin]
             /\ text' = fin.str
             /\ tmpImg' = tmpImg

\* the rejection caught, "?" pushed in place of the value, the loop resumed
ThrowSwallowed(r, run) ==
  LET rect == run.rectangles[run.i]
  IN Loop(r, [run EXCEPT !.values =
                Append(@, [x |-> rect.x, y |-> rect.y, v |-> <<"?">>])],
          run.i + 1)

\* the rejection of an awaited promise leaves processImage at once
Throw(r, run) ==
  /\ runs' = [runs EXCEPT ![r] = [run EXCEPT !.pc = "failed"]]
  /\ UNCHANGED <<text, tmpImg>>

Init ==
  /\ pending \in Sessions
  /\ runs = <<>>
  /\ text = <<>>
  /\ tmpImg = <<>>

\* the user selects a file, the hidden <img> loads it and calls processImage
OnLoad ==
  /\ pending # <<>>
  /\ pending' = Tail(pending)
  /\ runs' = Append(runs, NewRun(Head(pending)))
  /\ UNCHANGED <<text, tmpImg>>

\* await this.worker.load() returns
WorkerLoad(r) ==
  /\ runs[r].pc = "load"
  /\ runs' = [runs EXCEPT ![r].pc = "loadLanguage"]
  /\ UNCHANGED <<pending, text, tmpImg>>

\* await this.worker.loadLanguage("eng") returns
WorkerLoadLanguage(r) ==
  /\ runs[r].pc = "loadLanguage"
  /\ runs' = [runs EXCEPT ![r].pc = "initialize"]
  /\ UNCHANGED <<pending, text, tmpImg>>

\* await this.worker.initialize("eng") returns: detection, then the loop
WorkerInitialize(r) ==
  /\ runs[r].pc = "initialize"
  /\ Loop(r, runs[r], 1)
  /\ UNCHANGED pending

\* await this.worker.recognize(dataURL) returns the text t
RecognizeResolve(r, t) ==
  /\ runs[r].pc = "recognize"
  /\ LET rect == runs[r].rectangles[runs[r].i]
         run == [runs[r] EXCEPT !.values =
                   Append(@, [x |-> rect.x, y |-> rect.y, v |-> Value(t)])]
     IN Loop(r, run, runs[r].i + 1)
  /\ UNCHANGED pending

\* await this.worker.recognize(dataURL) throws
RecognizeReject(r) ==
  /\ runs[r].pc = "recognize"
  /\ Throw(r, runs[r])
  /\ UNCHANGED pending

Next ==
  \/ OnLoad
  \/ \E r \in 1..Len(runs) : WorkerLoad(r)
  \/ \E r \in 1..Len(runs) : WorkerLoadLanguage(r)
  \/ \E r \in 1..Len(runs) : WorkerInitialize(r)
  \/ \E r \in 1..Len(runs), t \in OcrTexts : RecognizeResolve(r, t)
  \/ \E r \in 1..Len(runs) : RecognizeReject(r)

Spec == Init /\ [][Next]_vars

-----------------------------------------------------------------------------
(* Notions the properties are stated in.                                   *)

Finished == { r \in 1..Len(runs) : runs[r].pc = "done" }

\* a run between its start and its final setState
InProgress == { r \in 1..Len(runs) : runs[r].pc \notin {"done", "failed"} }

\* the closed spans [a, a + wa] and [b, b + wb] have a point in common
SpansMeet(a, wa, b, wb) == (a..(a + wa)) \cap (b..(b + wb)) # {}

\* two rectangles overlap: their closed spans meet on both axes
Overlapping(r1, r2) ==
  /\ SpansMeet(r1.x, r1.width, r2.x, r2.width)
  /\ SpansMeet(r1.y, r1.height, r2.y, r2.height)

\* the rectangles among the first n that overlap no rectangle before them
RECURSIVE FirstSeen(_, _)
FirstSeen(rectangles, n) ==
  IF n = 0 THEN <<>>
  ELSE IF \A j \in 1..(n - 1) : ~Overlapping(rectangles[n], rectangles[j])
       THEN Append(FirstSeen(rectangles, n - 1), rectangles[n])
       ELSE FirstSeen(rectangles, n - 1)

\* the lines of a string
RECURSIVE Lines(_)
Lines(s) ==
  IF \E k \in 1..Len(s) : s[k] = "\n"
  THEN LET k == CHOOSE k \in 1..Len(s) :
                  s[k] = "\n" /\ \A m \in 1..(k - 1) : s[m] # "\n"
       IN <<SubSeq(s, 1, k - 1)>> \o Lines(SubSeq(s, k + 1, Len(s)))
  ELSE <<s>>

GridChars == {"1", "2", "3", "4", "5", "6", "7", "8", "9", "?", " "}

\* the distinct pixel positions of a run on each axis
PosX(run) == { run.values[k].x : k \in 1..Len(run.values) }
PosY(run) == { run.values[k].y : k \in 1..Len(run.values) }

\* the pairs of neighbours among the positions P
Neighbours(P) ==
  { pq \in P \X P :
      pq[1] < pq[2] /\ \A c \in P : ~(pq[1] < c /\ c < pq[2]) }

\* the smallest difference of two positions of P
SmallestGap(P) ==
  CHOOSE d \in { pq[2] - pq[1] : pq \in Neighbours(P) } :
    \A pq \in Neighbours(P) : d <= pq[2] - pq[1]

RECURSIVE SumOfSteps(_, _)
SumOfSteps(pairs, unit) ==
  IF pairs = {} THEN 0
  ELSE LET pq == CHOOSE pq \in pairs : TRUE
       IN (pq[2] - pq[1]) \div unit + SumOfSteps(pairs \ {pq}, unit)

\* what C4 says of one axis: its positions P, its unit and its sequence
AxisAsSpecified(P, unit, axis) ==
  Cardinality(P) >= 2 =>
    /\ unit = SmallestGap(P)
    /\ \A pq \in Neighbours(P) :
         (pq[2] - pq[1]) % unit = 0 =>
           LET k == (pq[2] - pq[1]) \div unit
               a == IndexOf(axis, pq[1])
               b == IndexOf(axis, pq[2])
           IN /\ a >= 0
              /\ b = a + k
              /\ \A m \in (a + 1)..(b - 1) : axis[m + 1] = Gap
    /\ (\A pq \in Neighbours(P) : (pq[2] - pq[1]) % unit = 0) =>
         Len(axis) = 1 + SumOfSteps(Neighbours(P), unit)

\* what C10 says of one axis
AxisWellFormed(P, unit, axis) ==
  Cardinality(P) >= 2 =>
    /\ unit \in Nat \ {0}
    /\ \A pq \in Neighbours(P) : Round(pq[2] - pq[1], unit) >= 1
    /\ \A p \in P : IndexOf(axis, p) >= 0
    /\ \A m, n \in 1..Len(axis) :
         (m < n /\ axis[m] # Gap /\ axis[n] # Gap) => axis[m] < axis[n]

\* the cell (row, column), from 0, a value is looked up at
Cell(run, k) ==
  <<IndexOf(run.ys, run.values[k].y), IndexOf(run.xs, run.values[k].x)>>

ExampleValues ==
  { [x |-> 0, y |-> 0, v |-> <<"3">>], [x |-> 20, y |-> 0, v |-> <<"1">>],
    [x |-> 60, y |-> 0, v |-> <<"2">>], [x |-> 0, y |-> 20, v |-> <<"4">>] }

\* a finished run whose extracted values are those of the end-to-end example
IsExample(r) ==
  /\ r \in Finished
  /\ Len(runs[r].values) = 4
  /\ { runs[r].values[k] : k \in 1..4 } = ExampleValues

-----------------------------------------------------------------------------
(* The properties.                                                         *)

\* C1: in every run, no two of the rectangles that survived the overlap
\* loop (those copied to dst2 and recognized) overlap, touching edges and
\* corners counting as overlap; the values pushed are those of the survivors.
C1_SurvivorsDisjoint ==
  \A r \in 1..Len(runs) :
    LET run == runs[r]
    IN /\ \A a, b \in 1..Len(run.dst2) :
            a # b => ~Overlapping(run.dst2[a], run.dst2[b])
       /\ r \in Finished =>
            /\ Len(run.values) = Len(run.dst2)
            /\ \A k \in 1..Len(run.values) :
                 /\ run.values[k].x = run.dst2[k].x
                 /\ run.values[k].y = run.dst2[k].y

\* C1 witness: a finished run that kept two rectangles or more and dropped one
C1_Witness ==
  \E r \in Finished :
    /\ Len(runs[r].dst2) >= 2
    /\ Len(runs[r].dst2) < Len(runs[r].rectangles)

\* C2 as claimed: the published grid has one line per entry of ys, every
\* line has as many characters as xs has entries, and every character is
\* one of '1'..'9', '?' and ' '.
C2_GridRectangular ==
  \A r \in Finished :
    LET rows == Lines(runs[r].str)
    IN /\ Len(rows) = Len(runs[r].ys)
       /\ \A i \in 1..Len(rows) :
            /\ Len(rows[i]) = Len(runs[r].xs)
            /\ \A c \in 1..Len(rows[i]) : rows[i][c] \in GridChars

\* C3 as claimed: the end-to-end example yields "3 1 2" and "4    ".
C3_ExampleAsSpecified ==
  \A r \in 1..Len(runs) :
    IsExample(r) =>
      runs[r].str = <<"3", " ", "1", " ", "2", "\n", "4", " ", " ", " ", " ">>

\* C3 amended: the end-to-end example yields "31 2" and "4   ": four
\* columns (0, 20, gap, 60), the values of x = 0 and x = 20 side by side.
C3_ExampleGrid ==
  \A r \in 1..Len(runs) :
    IsExample(r) =>
      /\ runs[r].xs = <<0, 20, Gap, 60>>
      /\ runs[r].ys = <<0, 20>>
      /\ runs[r].str = <<"3", "1", " ", "2", "\n", "4", " ", " ", " ">>
      /\ text = runs[r].str

\* C3 witness: a run has extracted the values of the example and finished
C3_Witness == \E r \in 1..Len(runs) : IsExample(r)

\* C4: on an axis with two distinct positions or more the unit is the
\* smallest difference of neighbouring positions, neighbours k units apart
\* have exactly k - 1 gap slots between them, and when every difference is
\* a whole number of units the axis has 1 + (the sum of the k) entries.
C4_UnitAndGaps ==
  \A r \in Finished :
    /\ AxisAsSpecified(PosX(runs[r]), runs[r].min_delta_x, runs[r].xs)
    /\ AxisAsSpecified(PosY(runs[r]), runs[r].min_delta_y, runs[r].ys)

\* C4 witness: a finished run with three columns, one of them 3 units from
\* its neighbour, hence two gap slots
C4_Witness ==
  \E r \in Finished :
    /\ PosX(runs[r]) = {0, 45, 60}
    /\ runs[r].min_delta_x = 15
    /\ runs[r].xs = <<0, Gap, Gap, 45, 60>>

\* C5: every value is held by the cell it is looked up at, no two values
\* of a run share a cell, every other cell is blank, and the cells that
\* are not blank are as many as the values.
C5_OneCellPerValue ==
  \A r \in Finished :
    LET run == runs[r]
        used == { Cell(run, k) : k \in 1..Len(run.values) }
        cells == (0..(Len(run.ys) - 1)) \X (0..(Len(run.xs) - 1))
    IN /\ used \subseteq cells
       /\ \A k \in 1..Len(run.values) :
            run.arr[Cell(run, k)[1] + 1][Cell(run, k)[2] + 1] = run.values[k].v
       /\ \A k, m \in 1..Len(run.values) :
            k # m => Cell(run, k) # Cell(run, m)
       /\ \A c \in cells \ used : run.arr[c[1] + 1][c[2] + 1] = <<" ">>
       /\ Cardinality({ c \in cells : run.arr[c[1] + 1][c[2] + 1] # <<" ">> })
            = Len(run.values)

\* C5 witness: a finished run with three values and a blank cell
C5_Witness ==
  \E r \in Finished :
    /\ Len(runs[r].values) >= 3
    /\ \E i \in 1..Len(runs[r].arr), j \in 1..Len(runs[r].xs) :
         runs[r].arr[i][j] = <<" ">>

\* C6 as claimed: a run whose detection yields no rectangle ends in a
\* failure and publishes no grid.
C6_EmptyDetectionFails ==
  \A r \in 1..Len(runs) :
    (runs[r].rectangles = <<>> /\ r \notin InProgress) =>
      /\ runs[r].pc = "failed"
      /\ runs[r].str = <<>>

\* C7: a recognize call that fails ends its run there: the step pushes no
\* value and no placeholder and leaves state.text alone, a failed run takes
\* no further step, and state.text only ever changes to the grid of a run
\* that has just finished without a failure.
C7_OcrFailureAborts ==
  [][ /\ \A r \in 1..Len(runs) :
           /\ RecognizeReject(r) =>
                /\ runs'[r] = [runs[r] EXCEPT !.pc = "failed"]
                /\ text' = text
           /\ runs[r].pc = "failed" => runs'[r] = runs[r]
      /\ text' # text =>
           \E r \in 1..Len(runs) :
             /\ runs[r].pc \in {"initialize", "recognize"}
             /\ runs'[r].pc = "done"
             /\ text' = runs'[r].str
    ]_vars

\* C7 witness: a run failed at its second recognize call, with a rectangle
\* still to be recognized, and nothing has been published
C7_Witness ==
  \E r \in 1..Len(runs) :
    /\ runs[r].pc = "failed"
    /\ Len(runs[r].values) = 1
    /\ NextKept(runs[r].rectangles, runs[r].i + 1) # 0
    /\ text = <<>>

\* C8 as claimed: at most one run is in progress at any time, and once the
\* run started last has finished, state.text is its grid.
C8_OneRunAtATime ==
  /\ Cardinality(InProgress) <= 1
  /\ (runs # <<>> /\ Len(runs) \in Finished) => text = runs[Len(runs)].str

\* C9: the rectangles kept are exactly those that overlap no rectangle
\* before them in the input, kept or dropped; of {0,0,20,20}, {5,5,20,20}
\* only the first is kept.
C9_FirstSeenWins ==
  \A r \in 1..Len(runs) :
    LET run == runs[r]
    IN /\ run.pc \in {"recognize", "failed"} =>
            run.dst2 = FirstSeen(run.rectangles, run.i)
       /\ run.pc = "done" =>
            run.dst2 = FirstSeen(run.rectangles, Len(run.rectangles))
       /\ (run.pc = "done"
             /\ run.rectangles = <<Rect(0, 0, 20, 20), Rect(5, 5, 20, 20)>>) =>
            run.dst2 = <<Rect(0, 0, 20, 20)>>

\* C9 witness: the third rectangle overlaps the dropped second one only,
\* and is dropped
C9_Witness ==
  \E r \in Finished :
    /\ runs[r].rectangles =
         <<Rect(0, 0, 20, 20), Rect(5, 5, 20, 20), Rect(25, 5, 15, 15)>>
    /\ ~Overlapping(Rect(25, 5, 15, 15), Rect(0, 0, 20, 20))
    /\ runs[r].dst2 = <<Rect(0, 0, 20, 20)>>

\* C10: on an axis with two distinct positions or more the unit is a
\* positive integer, every num_steps is at least 1, every position has a
\* slot, and the positions stand in increasing order in the axis sequence.
C10_AxisWellFormed ==
  \A r \in Finished :
    /\ AxisWellFormed(PosX(runs[r]), runs[r].min_delta_x, runs[r].xs)
    /\ AxisWellFormed(PosY(runs[r]), runs[r].min_delta_y, runs[r].ys)

\* C10 witness: a finished run with columns whose difference is no whole
\* multiple of the unit (25 against 15, two steps)
C10_Witness ==
  \E r \in Finished :
    /\ PosX(runs[r]) = {20, 45, 60}
    /\ runs[r].min_delta_x = 15
    /\ runs[r].xs = <<20, Gap, 45, 60>>

====
